---- MODULE Spec2Model ----
(***************************************************************************)
(* Model of the quality-gates bootstrap script (src/unnamed/part_000), of  *)
(* the Node snippet it embeds to register package.json scripts, and of the *)
(* GitHub Actions workflow it generates.                                   *)
(*                                                                         *)
(*   Spec      the bootstrap script, run up to MaxRuns times on a project  *)
(*   SpecReg   the command-registration snippet applied repeatedly to an   *)
(*             arbitrary manifest                                          *)
(*   SpecPipe  one run of the generated CI/CD workflow                     *)
(***************************************************************************)
EXTENDS Integers, Sequences, FiniteSets, TLC

VARIABLES
    pc,        \* position of the script: the command about to run, or "exited"
    exitCode,  \* exit status of the script process (meaningful when pc = "exited")
    fs,        \* content of the config files and of the workflow file
    pkg,       \* package.json
    hook,      \* .husky/pre-commit
    log,       \* commands of the current run that have completed, with status
    run,       \* number of the current run of the script
    start,     \* the project tree as it was when the current run started
    regHist,   \* SpecReg: package.json before and after each registration
    ci         \* SpecPipe: the workflow run

vars == <<pc, exitCode, fs, pkg, hook, log, run, start, regHist, ci>>

(***************************************************************************)
(* Bounds                                                                  *)
(***************************************************************************)
MaxRuns == 2      \* runs of the bootstrap script on the same project
MaxStatus == 2    \* external commands exit with a status in 0..MaxStatus
MaxApply == 2     \* applications of the registration snippet in SpecReg

Statuses == 0..MaxStatus

(***************************************************************************)
(* Files                                                                   *)
(***************************************************************************)
Absent == "<absent>"
Edited == "<edited by hand>"

Tools == {"formatter", "script-linter", "style-linter", "performance-audit"}

\* The files each `cat > file << 'EOF'` of steps 3-6 writes, per tool.
ConfigFileOf(tool) ==
    CASE tool = "formatter"         -> ".prettierrc"
      [] tool = "script-linter"     -> ".eslintrc.cjs"
      [] tool = "style-linter"      -> ".stylelintrc.json"
      [] tool = "performance-audit" -> "lighthouserc.json"

IgnoreFilesOf(tool) ==
    CASE tool = "formatter"         -> {".prettierignore"}
      [] tool = "script-linter"     -> {".eslintignore"}
      [] tool = "style-linter"      -> {".stylelintignore"}
      [] tool = "performance-audit" -> {}

WorkflowFile == ".github/workflows/ci-cd.yml"

ConfigFiles ==
    {ConfigFileOf(t) : t \in Tools} \cup UNION {IgnoreFilesOf(t) : t \in Tools}

Files == ConfigFiles \cup {WorkflowFile}

\* The heredoc body written to each file, named by its place in the script.
DefaultContent(f) ==
    CASE f = ".prettierrc"       -> "heredoc 40-46"
      [] f = ".prettierignore"   -> "heredoc 50-56"
      [] f = ".eslintrc.cjs"     -> "heredoc 62-80"
      [] f = ".eslintignore"     -> "heredoc 84-87"
      [] f = ".stylelintrc.json" -> "heredoc 93-102"
      [] f = ".stylelintignore"  -> "heredoc 106-108"
      [] f = "lighthouserc.json" -> "heredoc 114-128"
      [] f = WorkflowFile        -> "heredoc 182-243"

\* A write that keeps what an existing file holds (as `>>` or a "write if
\* absent" would), in place of the truncating `>`.
WriteAppend(old, new) == IF old = Absent THEN new ELSE old

\* `cat > file`: the redirection truncates, the new content replaces the old.
WriteFile(old, new) == new

(***************************************************************************)
(* package.json and the Node snippet of step 7 (lines 133-159)             *)
(***************************************************************************)
\* The ten command aliases the snippet registers, in the order it handles them.
AliasOrder ==
    << "dev", "build", "format", "format:check", "lint:js", "lint:css",
       "lint", "precommit", "lhci", "prepare" >>

Aliases == {AliasOrder[i] : i \in DOMAIN AliasOrder}

\* A scripts entry that is none of the ten aliases.
OtherScript == "test"

ScriptKeys == Aliases \cup {OtherScript}

DefaultCommand(k) ==
    CASE k = "dev"          -> "npx eleventy --serve --quiet"
      [] k = "build"        -> "ELEVENTY_ENV=production npx eleventy"
      [] k = "format"       -> "prettier --write **/*.{js,jsx,ts,tsx,css,scss,md,json,njk,html}"
      [] k = "format:check" -> "prettier --check **/*.{js,jsx,ts,tsx,css,scss,md,json,njk,html}"
      [] k = "lint:js"      -> "eslint ."
      [] k = "lint:css"     -> "stylelint src/**/*.css"
      [] k = "lint"         -> "npm run lint:js && npm run lint:css"
      [] k = "precommit"    -> "npm run format:check && npm run lint"
      [] k = "lhci"         -> "lhci autorun"
      [] k = "prepare"      -> "husky install"

\* JavaScript values of a scripts entry: a missing property reads as undefined.
Undefined == "<undefined>"
EmptyString == ""
CustomCommand == "echo custom"

\* JavaScript truthiness, as `!x` and `x || y` use it: undefined and "" are falsy.
Truthy(v) == v # Undefined /\ v # EmptyString

\* The text layouts a package.json can have; JSON.stringify(pkg, null, 2) writes
\* two-space indentation and no final newline.
Layouts == {"stringify-2", "hand-written"}

NoEntries == [k \in ScriptKeys |-> Undefined]

\* The file package.json: whether it exists, its text layout, and the JSON value
\* it holds (the "name" field, whether devDependencies lists the tools, whether
\* there is a "scripts" object, and the entries of that object).
NoManifest ==
    [exists |-> FALSE, layout |-> "hand-written", name |-> Undefined,
     devDeps |-> FALSE, hasScripts |-> FALSE, entries |-> NoEntries]

\* JSON.parse(fs.readFileSync(pkgPath, 'utf8')): the value, without the layout.
JSONParse(file) ==
    [name |-> file.name, devDeps |-> file.devDeps,
     hasScripts |-> file.hasScripts, entries |-> file.entries]

\* JSON.stringify(pkg, null, 2) written by fs.writeFileSync: a property whose
\* value is undefined is not written.
JSONStringify(value) ==
    [exists |-> TRUE, layout |-> "stringify-2", name |-> value.name,
     devDeps |-> value.devDeps, hasScripts |-> value.hasScripts,
     entries |-> value.entries]

\* pkg.scripts = pkg.scripts || {};
EnsureScripts(value) == [value EXCEPT !.hasScripts = TRUE]

\* The default of "dev" guarded by the wrong alias: `if (!s.dev && s.build)`.
SetDefaultGuarded(entries, k) ==
    IF k = "dev" /\ ~Truthy(entries["build"])
    THEN entries
    ELSE [entries EXCEPT ![k] = IF Truthy(entries[k]) THEN entries[k] ELSE DefaultCommand(k)]

\* One alias: `if (!s.k) s.k = d` for dev and build, `s.k = s.k || d` for the rest.
SetDefault(entries, k) ==
    [entries EXCEPT ![k] = IF Truthy(entries[k]) THEN entries[k] ELSE DefaultCommand(k)]

\* Lines 142-156, alias by alias in source order.
RECURSIVE MergeFrom(_, _)
MergeFrom(entries, i) ==
    IF i > Len(AliasOrder)
    THEN entries
    ELSE MergeFrom(SetDefault(entries, AliasOrder[i]), i + 1)

\* The whole snippet on an existing, well-formed package.json.
RegisterCommands(file) ==
    LET value  == EnsureScripts(JSONParse(file))
        merged == [value EXCEPT !.entries = MergeFrom(value.entries, 1)]
    IN  JSONStringify(merged)

\* Every package.json the snippet can meet: with or without a scripts object,
\* any subset of the aliases present, each with an empty or a non-empty command.
EntryValues == {Undefined, EmptyString, CustomCommand}

WithOtherScript(e) ==
    [k \in ScriptKeys |-> IF k \in Aliases THEN e[k] ELSE CustomCommand]

AllManifests ==
    { [exists |-> TRUE, layout |-> l, name |-> "site", devDeps |-> TRUE,
       hasScripts |-> TRUE, entries |-> WithOtherScript(e)] :
         l \in Layouts, e \in [Aliases -> EntryValues] }
    \cup
    { [exists |-> TRUE, layout |-> l, name |-> "site", devDeps |-> TRUE,
       hasScripts |-> FALSE, entries |-> NoEntries] : l \in Layouts }

(***************************************************************************)
(* The bootstrap script (lines 16-256)                                     *)
(***************************************************************************)
\* The commands of the script in source order; "exited" is the ended process.
Program ==
    << "check", "npmInstall",
       ".prettierrc", ".prettierignore", ".eslintrc.cjs", ".eslintignore",
       ".stylelintrc.json", ".stylelintignore", "lighthouserc.json",
       "node", "huskyInstall", "mkdirHusky", "huskyAdd",
       "fallbackCat", "fallbackChmod",
       "mkdirWorkflows", WorkflowFile, "summary" >>

\* The same commands with step 7 moved ahead of the config writes and the
\* dependency installation moved behind the hook set-up.
ProgramReordered ==
    << "check", "node",
       ".prettierrc", ".prettierignore", ".eslintrc.cjs", ".eslintignore",
       ".stylelintrc.json", ".stylelintignore", "lighthouserc.json",
       "huskyInstall", "mkdirHusky", "huskyAdd",
       "fallbackCat", "fallbackChmod", "npmInstall",
       "mkdirWorkflows", WorkflowFile, "summary" >>

IndexIn(seq, s) == CHOOSE i \in DOMAIN seq : seq[i] = s

Following(seq, s) ==
    IF IndexIn(seq, s) = Len(seq) THEN "exited" ELSE seq[IndexIn(seq, s) + 1]

StepAfterReordered(s) == Following(ProgramReordered, s)

\* The command bash runs after `s` when it does not exit at `s`.
StepAfter(s) == Following(Program, s)

\* The script without its `set -e` line.
ErrExitOff == FALSE

\* set -e (line 17): a command that fails ends the script with its status.
ErrExit == TRUE

\* The hook registration without its `|| { ... }`.
NotInOrList(s) == FALSE

\* `npx husky add ... || { ... }` (line 166): the left side of || is exempt
\* from set -e, its status only selects whether the braces run.
InOrList(s) == s = "huskyAdd"

\* The script without its sanity check.
NeverMissing(file) == FALSE

\* `if [ ! -f package.json ]` (line 22).
ManifestMissing(file) == ~file.exists

\* .husky/pre-commit: the fallback heredoc (lines 169-172) and what
\* `husky add .husky/pre-commit "npm run precommit"` leaves in the file.
FallbackHook == "#!/bin/sh + husky.sh + npm run precommit"
HuskyAddHook == "husky add: npm run precommit"
OtherHook == "some other hook"

RunsPrecommit(content) == content \in {FallbackHook, HuskyAddHook}

NoHook == [present |-> FALSE, exec |-> FALSE, content |-> Absent]

\* `cat > .husky/pre-commit`: a file that exists keeps its mode, a new file is
\* created without the execute bit.
CatHook(h) ==
    [present |-> TRUE, exec |-> h.present /\ h.exec, content |-> WriteFile(h.content, FallbackHook)]

\* The fallback without its chmod.
ChmodSkipped(h) == h

\* chmod +x .husky/pre-commit (line 174).
ChmodX(h) == [h EXCEPT !.exec = TRUE]

\* husky's own `add`: appends the command to a hook that exists, else creates
\* an executable hook.
HuskyAdd(h) ==
    [present |-> TRUE, exec |-> IF h.present THEN h.exec ELSE TRUE, content |-> HuskyAddHook]

\* `npm install --save-dev ...` on success: package.json exists and its
\* devDependencies list the tools; the rest of its content is kept.
NpmSaveDev(file) ==
    IF file.exists
    THEN [file EXCEPT !.devDeps = TRUE]
    ELSE [NoManifest EXCEPT !.exists = TRUE, !.devDeps = TRUE]

Snapshot(f, p, h) == [fs |-> f, pkg |-> p, hook |-> h]

\* A command has completed with status st: bash goes on, or exits under set -e.
Completed(s, st) ==
    /\ log' = Append(log, [step |-> s, status |-> st])
    /\ IF st # 0 /\ ErrExit /\ ~InOrList(s)
       THEN pc' = "exited" /\ exitCode' = st
       ELSE pc' = StepAfter(s) /\ exitCode' = exitCode
    /\ UNCHANGED <<run, start, regHist, ci>>

\* Lines 21-25: exit 1 when package.json is missing.
SanityCheck ==
    /\ pc = "check"
    /\ IF ManifestMissing(pkg)
       THEN /\ pc' = "exited"
            /\ exitCode' = 1
            /\ log' = Append(log, [step |-> "check", status |-> 1])
            /\ UNCHANGED <<run, start, regHist, ci>>
       ELSE Completed("check", 0)
    /\ UNCHANGED <<fs, pkg, hook>>

\* Lines 29-35: the installer ends with any status; it changes package.json
\* when it succeeds.
NpmInstall ==
    /\ pc = "npmInstall"
    /\ \E st \in Statuses :
         /\ pkg' = IF st = 0 THEN NpmSaveDev(pkg) ELSE pkg
         /\ Completed("npmInstall", st)
    /\ UNCHANGED <<fs, hook>>

\* Lines 39-129: one `cat > file << 'EOF'`; the redirection can fail (status 1),
\* and then the file is as it was.
WriteConfig ==
    /\ pc \in ConfigFiles
    /\ \E ok \in BOOLEAN :
         /\ fs' = IF ok THEN [fs EXCEPT ![pc] = WriteFile(fs[pc], DefaultContent(pc))] ELSE fs
         /\ Completed(pc, IF ok THEN 0 ELSE 1)
    /\ UNCHANGED <<pkg, hook>>

\* Lines 133-159: node exits 1 on an uncaught exception (package.json cannot be
\* read, or cannot be written).
RegisterScripts ==
    /\ pc = "node"
    /\ \E ok \in BOOLEAN :
         IF ok /\ pkg.exists
         THEN pkg' = RegisterCommands(pkg) /\ Completed("node", 0)
         ELSE pkg' = pkg /\ Completed("node", 1)
    /\ UNCHANGED <<fs, hook>>

\* Line 163: npx husky install.
HuskyInstall ==
    /\ pc = "huskyInstall"
    /\ \E st \in Statuses : Completed("huskyInstall", st)
    /\ UNCHANGED <<fs, pkg, hook>>

\* Line 165: mkdir -p .husky.
MkdirHusky ==
    /\ pc = "mkdirHusky"
    /\ \E ok \in BOOLEAN : Completed("mkdirHusky", IF ok THEN 0 ELSE 1)
    /\ UNCHANGED <<fs, pkg, hook>>

\* Line 166: npx husky add ... || { fallback }. Status 0 skips the braces.
RegisterHook ==
    /\ pc = "huskyAdd"
    /\ \E st \in Statuses :
         /\ hook' = IF st = 0 THEN HuskyAdd(hook) ELSE hook
         /\ log' = Append(log, [step |-> "huskyAdd", status |-> st])
         /\ IF st = 0
            THEN pc' = StepAfter("fallbackChmod") /\ exitCode' = exitCode
            ELSE IF ErrExit /\ ~InOrList("huskyAdd")
                 THEN pc' = "exited" /\ exitCode' = st
                 ELSE pc' = StepAfter("huskyAdd") /\ exitCode' = exitCode
    /\ UNCHANGED <<fs, pkg, run, start, regHist, ci>>

\* Lines 168-173: cat > .husky/pre-commit, inside the braces.
FallbackCat ==
    /\ pc = "fallbackCat"
    /\ \E ok \in BOOLEAN :
         /\ hook' = IF ok THEN CatHook(hook) ELSE hook
         /\ Completed("fallbackCat", IF ok THEN 0 ELSE 1)
    /\ UNCHANGED <<fs, pkg>>

\* Line 174: chmod +x .husky/pre-commit, inside the braces.
FallbackChmod ==
    /\ pc = "fallbackChmod"
    /\ \E ok \in BOOLEAN :
         /\ hook' = IF ok /\ hook.present THEN ChmodX(hook) ELSE hook
         /\ Completed("fallbackChmod", IF ok /\ hook.present THEN 0 ELSE 1)
    /\ UNCHANGED <<fs, pkg>>

\* Line 179: mkdir -p .github/workflows.
MkdirWorkflows ==
    /\ pc = "mkdirWorkflows"
    /\ \E ok \in BOOLEAN : Completed("mkdirWorkflows", IF ok THEN 0 ELSE 1)
    /\ UNCHANGED <<fs, pkg, hook>>

\* Lines 181-244: cat > .github/workflows/ci-cd.yml.
WriteWorkflow ==
    /\ pc = WorkflowFile
    /\ \E ok \in BOOLEAN :
         /\ fs' = IF ok
                  THEN [fs EXCEPT ![WorkflowFile] = WriteFile(fs[WorkflowFile], DefaultContent(WorkflowFile))]
                  ELSE fs
         /\ Completed(WorkflowFile, IF ok THEN 0 ELSE 1)
    /\ UNCHANGED <<pkg, hook>>

\* Lines 246-256: the closing echo lines; the script ends with the status of
\* the last one.
Summary ==
    /\ pc = "summary"
    /\ pc' = "exited"
    /\ exitCode' = 0
    /\ log' = Append(log, [step |-> "summary", status |-> 0])
    /\ UNCHANGED <<fs, pkg, hook, run, start, regHist, ci>>

\* The operator runs the script again on the tree the last run left, after
\* editing at most one of the generated files by hand.
Rerun ==
    /\ pc = "exited"
    /\ run < MaxRuns
    /\ \E edits \in {{}} \cup {{f} : f \in Files} :
         fs' = [f \in Files |-> IF f \in edits THEN Edited ELSE fs[f]]
    /\ pc' = Program[1]
    /\ exitCode' = 0
    /\ log' = <<>>
    /\ run' = run + 1
    /\ start' = Snapshot(fs', pkg, hook)
    /\ UNCHANGED <<pkg, hook, regHist, ci>>

(***************************************************************************)
(* The generated workflow (lines 182-243)                                  *)
(***************************************************************************)
\* on: push: branches: [ main ] / pull_request (lines 184-187).
PushBranches == {"main"}

Triggers(event, branch) ==
    \/ event = "push" /\ branch \in PushBranches
    \/ event = "pull_request"

\* github.ref of a run: the pushed branch, or the merge ref of the pull request.
GithubRef(event, branch) ==
    CASE event = "pull_request"                  -> "refs/pull/1/merge"
      [] event = "push" /\ branch = "main"       -> "refs/heads/main"
      [] event = "push" /\ branch = "feature"    -> "refs/heads/feature"

\* steps of build-and-test (lines 193-216) and of deploy (lines 223-243).
BuildAndTestSteps ==
    << "Checkout", "Use Node.js", "Install dependencies",
       "Check formatting (Prettier)", "Run linters", "Build Eleventy site",
       "Lighthouse CI" >>

DeploySteps ==
    << "Checkout", "Use Node.js", "Install dependencies", "Build Eleventy site",
       "Deploy to GitHub Pages" >>

\* The audit step without its `|| echo ...`.
ShellOrLeft(a, b) == a

\* `a || echo ...`: the status of the list is a's when a succeeds, else echo's.
ShellOr(a, b) == IF a = 0 THEN 0 ELSE b

\* The status of a step's `run:` line given the status st of its command;
\* echo succeeds.
StepStatus(name, st) ==
    IF name = "Lighthouse CI" THEN ShellOr(st, 0) ELSE st

\* deploy: `needs: build-and-test` (line 219): an `if:` without a status
\* function runs the job only when every needed job succeeded.
NeedsSatisfied(result) == result = "success"

\* The deploy job without its `if:`.
DeployIfAlways(ref) == TRUE

\* deploy: `if: github.ref == 'refs/heads/main'` (line 220).
DeployIf(ref) == ref = "refs/heads/main"

IdleCi ==
    [phase |-> "idle", event |-> "none", ref |-> "none", step |-> 1,
     buildAndTest |-> "pending", deploy |-> "pending", ran |-> <<>>]

\* Projects the script is started on.
InitManifests ==
    { NoManifest,
      [exists |-> TRUE, layout |-> "hand-written", name |-> "site", devDeps |-> FALSE,
       hasScripts |-> FALSE, entries |-> NoEntries],
      [exists |-> TRUE, layout |-> "hand-written", name |-> "site", devDeps |-> FALSE,
       hasScripts |-> TRUE,
       entries |-> [NoEntries EXCEPT !["dev"] = EmptyString, !["lint"] = CustomCommand,
                                     ![OtherScript] = CustomCommand]] }

InitHooks == {NoHook, [present |-> TRUE, exec |-> TRUE, content |-> OtherHook]}


Init ==
    /\ pc = Program[1]
    /\ exitCode = 0
    /\ \E c \in {Absent, Edited}, w \in {Absent, Edited} :
         fs = [f \in Files |-> IF f = WorkflowFile THEN w ELSE c]
    /\ pkg \in InitManifests
    /\ hook \in InitHooks
    /\ log = <<>>
    /\ run = 1
    /\ start = Snapshot(fs, pkg, hook)
    /\ regHist = <<>>
    /\ ci = IdleCi

Next ==
    \/ SanityCheck
    \/ NpmInstall
    \/ WriteConfig
    \/ RegisterScripts
    \/ HuskyInstall
    \/ MkdirHusky
    \/ RegisterHook
    \/ FallbackCat
    \/ FallbackChmod
    \/ MkdirWorkflows
    \/ WriteWorkflow
    \/ Summary
    \/ Rerun

Spec == Init /\ [][Next]_vars

(***************************************************************************)
(* Properties of the bootstrap script (Spec)                               *)
(***************************************************************************)
StepsLogged == {log[i].step : i \in DOMAIN log}
Failed(s) == \E i \in DOMAIN log : log[i].step = s /\ log[i].status # 0
Succeeded(s) == \E i \in DOMAIN log : log[i].step = s /\ log[i].status = 0
LaterSteps == (ConfigFiles \cup {"node", "huskyInstall", "mkdirHusky", "huskyAdd",
                                "fallbackCat", "fallbackChmod", "mkdirWorkflows",
                                WorkflowFile, "summary"})
TreeUntouched == Snapshot(fs, pkg, hook) = start

\* C1: when package.json is absent at the start of a run, the run ends at the
\* sanity check with exit status 1: the installer is never invoked, no later
\* step runs, and no config file, manifest, hook or pipeline file is written.
C1_AbsentManifestExitsBeforeInstall ==
    (~start.pkg.exists /\ log # <<>>) =>
        /\ pc = "exited"
        /\ exitCode = 1
        /\ log = << [step |-> "check", status |-> 1] >>
        /\ TreeUntouched

C1_Witness ==
    /\ pc = "exited"
    /\ ~start.pkg.exists
    /\ exitCode = 1
    /\ "check" \in StepsLogged

\* C2 as stated: at exit, the status is zero unless step 1 or step 2 failed.
C2_ZeroUnlessStep1Or2Failed ==
    (pc = "exited" /\ ~Failed("check") /\ ~Failed("npmInstall")) => exitCode = 0

\* C2, amended: at exit, the status is zero exactly when no command other than
\* the primary hook registration failed; a non-zero exit status is the status
\* of the last command run, whichever step it belongs to.
C2_ZeroIffOnlyHookRegistrationFailed ==
    pc = "exited" =>
        /\ exitCode = 0 <=> (\A i \in DOMAIN log : log[i].step # "huskyAdd" => log[i].status = 0)
        /\ exitCode # 0 => exitCode = log[Len(log)].status

C2_Witness ==
    /\ pc = "exited"
    /\ exitCode = 0
    /\ Failed("huskyAdd")
    /\ Succeeded(WorkflowFile)

\* C3 as stated: whenever the primary hook registration failed, the script
\* ends with the hook present, executable and running the precommit alias,
\* having continued to the pipeline-definition step.
C3_FallbackAlwaysLeavesHook ==
    (pc = "exited" /\ Failed("huskyAdd")) =>
        /\ hook.present /\ hook.exec /\ RunsPrecommit(hook.content)
        /\ "mkdirWorkflows" \in StepsLogged

\* C3, amended: a non-zero status of the primary hook registration is
\* swallowed and the fallback runs; once the fallback's write and chmod have
\* succeeded the hook is present, executable and runs the precommit alias, and
\* the script goes on to the pipeline-definition step; a fallback command that
\* fails ends the script with a non-zero status.
C3_FallbackLeavesHookWhenItSucceeds ==
    Failed("huskyAdd") =>
        /\ log[Len(log)].step = "huskyAdd" => pc = "fallbackCat"
        /\ (Succeeded("fallbackCat") /\ Succeeded("fallbackChmod")) =>
              /\ hook.present /\ hook.exec /\ RunsPrecommit(hook.content)
              /\ pc = "mkdirWorkflows" \/ "mkdirWorkflows" \in StepsLogged
        /\ (Failed("fallbackCat") \/ Failed("fallbackChmod")) =>
              pc = "exited" /\ exitCode # 0

C3_Witness ==
    /\ pc = "exited"
    /\ exitCode = 0
    /\ Failed("huskyAdd")
    /\ Succeeded("fallbackChmod")
    /\ ~start.hook.present
    /\ hook.exec

\* C6: when the installer returns non-zero, the script has exited at that
\* command with the installer's status, and nothing of steps 3-6 has run or
\* been written.
C6_InstallFailureHalts ==
    \A i \in DOMAIN log :
        (log[i].step = "npmInstall" /\ log[i].status # 0) =>
            /\ pc = "exited"
            /\ exitCode = log[i].status
            /\ i = Len(log)
            /\ StepsLogged \cap LaterSteps = {}
            /\ TreeUntouched

C6_Witness ==
    /\ pc = "exited"
    /\ exitCode = 2
    /\ log[Len(log)] = [step |-> "npmInstall", status |-> 2]

\* C9 as stated: once the config-materialization step is done, each of the
\* four tools has a configuration file and an ignore-file, all holding the
\* default content.
C9_EveryToolHasConfigAndIgnore ==
    Succeeded("lighthouserc.json") =>
        \A t \in Tools :
            /\ fs[ConfigFileOf(t)] = DefaultContent(ConfigFileOf(t))
            /\ \E f \in IgnoreFilesOf(t) : fs[f] = DefaultContent(f)

\* C9, amended: once the config-materialization step has completed, the
\* configuration file of each of the four tools, and the ignore-file of the
\* formatter, the script-linter and the style-linter, hold the default content
\* whatever they held before the run; the performance-audit tool gets no
\* ignore-file.
C9_ConfigsResetToDefaults ==
    Succeeded("lighthouserc.json") =>
        /\ \A f \in ConfigFiles : fs[f] = DefaultContent(f)
        /\ \A t \in Tools :
              /\ ConfigFileOf(t) \in ConfigFiles
              /\ (t # "performance-audit") => (\E f \in IgnoreFilesOf(t) : f \in ConfigFiles)
        /\ IgnoreFilesOf("performance-audit") = {}

C9_Witness ==
    /\ Succeeded("lighthouserc.json")
    /\ start.fs[".prettierrc"] = Edited
    /\ start.fs[".eslintignore"] = DefaultContent(".eslintignore")
    /\ fs[".prettierrc"] = DefaultContent(".prettierrc")

\* C10: the commands of a run execute one after another in source order; every
\* config file has been written before package.json's scripts are, and the
\* dependency installation has succeeded before husky is invoked.
C10_StrictSequence ==
    /\ \A i, j \in DOMAIN log :
          i < j => IndexIn(Program, log[i].step) < IndexIn(Program, log[j].step)
    /\ \A i \in DOMAIN log :
          /\ log[i].step = "node" =>
                \A f \in ConfigFiles : \E j \in 1..(i - 1) : log[j] = [step |-> f, status |-> 0]
          /\ log[i].step \in {"huskyInstall", "huskyAdd"} =>
                \E j \in 1..(i - 1) : log[j] = [step |-> "npmInstall", status |-> 0]
    /\ pc \in StepsLogged => pc = "exited"

C10_Witness ==
    /\ Succeeded("node")
    /\ "huskyInstall" \in StepsLogged
    /\ "huskyAdd" \in StepsLogged
    /\ pc = "exited"

(***************************************************************************)
(* SpecReg: the registration snippet applied again and again               *)
(***************************************************************************)
InitReg ==
    /\ pkg \in AllManifests
    /\ regHist = <<pkg>>
    /\ pc = "node"
    /\ exitCode = 0
    /\ fs = [f \in Files |-> Absent]
    /\ hook = NoHook
    /\ log = <<>>
    /\ run = 1
    /\ start = Snapshot(fs, pkg, hook)
    /\ ci = IdleCi

ApplyRegistration ==
    /\ Len(regHist) <= MaxApply
    /\ pkg' = RegisterCommands(pkg)
    /\ regHist' = Append(regHist, pkg')
    /\ UNCHANGED <<pc, exitCode, fs, hook, log, run, start, ci>>

NextReg == ApplyRegistration

SpecReg == InitReg /\ [][NextReg]_vars

\* C4: running the command-registration step a second time leaves package.json
\* exactly as the first run wrote it.
C4_RegistrationIdempotent ==
    \A i \in 2..(Len(regHist) - 1) : regHist[i + 1] = regHist[i]

C4_Witness ==
    /\ Len(regHist) >= 3
    /\ regHist[1].entries["dev"] = EmptyString
    /\ regHist[1].entries["lint"] = CustomCommand
    /\ regHist[1].entries["build"] = Undefined
    /\ regHist[2] # regHist[1]
    /\ regHist[3] = regHist[2]

\* C5: the registration step leaves every alias that already exists in scripts
\* with the value it had, whatever that value is, and leaves every other
\* scripts entry and manifest field as it was.
C5_ExistingEntriesKept ==
    Len(regHist) >= 2 =>
        /\ \A k \in Aliases :
              regHist[1].entries[k] # Undefined =>
                  regHist[2].entries[k] = regHist[1].entries[k]
        /\ regHist[2].entries[OtherScript] = regHist[1].entries[OtherScript]
        /\ regHist[2].name = regHist[1].name
        /\ regHist[2].devDeps = regHist[1].devDeps

(***************************************************************************)
(* SpecPipe: one run of the generated workflow                             *)
(***************************************************************************)
Events == {"push", "pull_request"}
Branches == {"main", "feature"}

InitPipe ==
    /\ ci = IdleCi
    /\ pc = "exited"
    /\ exitCode = 0
    /\ fs = [f \in Files |-> DefaultContent(f)]
    /\ pkg \in {RegisterCommands(m) : m \in InitManifests \ {NoManifest}}
    /\ hook = HuskyAdd(NoHook)
    /\ log = <<>>
    /\ run = 1
    /\ start = Snapshot(fs, pkg, hook)
    /\ regHist = <<>>

\* An event reaches the repository; the workflow starts when its `on:` matches.
Trigger ==
    /\ ci.phase = "idle"
    /\ \E ev \in Events, br \in Branches :
         ci' = [ci EXCEPT !.event = ev,
                          !.ref = GithubRef(ev, br),
                          !.phase = IF Triggers(ev, br) THEN "build-and-test" ELSE "not-triggered"]
    /\ UNCHANGED <<pc, exitCode, fs, pkg, hook, log, run, start, regHist>>

\* One step of build-and-test; a failed step fails the job and skips the rest.
BuildAndTestStep ==
    /\ ci.phase = "build-and-test"
    /\ \E st \in Statuses :
         LET name == BuildAndTestSteps[ci.step]
             out  == StepStatus(name, st)
             ran  == Append(ci.ran, [job |-> "build-and-test", step |-> name,
                                     command |-> st, status |-> out])
         IN  ci' = IF out # 0
                   THEN [ci EXCEPT !.ran = ran, !.buildAndTest = "failure", !.phase = "gate"]
                   ELSE IF ci.step = Len(BuildAndTestSteps)
                        THEN [ci EXCEPT !.ran = ran, !.buildAndTest = "success", !.phase = "gate"]
                        ELSE [ci EXCEPT !.ran = ran, !.step = ci.step + 1]
    /\ UNCHANGED <<pc, exitCode, fs, pkg, hook, log, run, start, regHist>>

\* build-and-test has ended: deploy starts or is skipped (lines 219-220).
DeployGate ==
    /\ ci.phase = "gate"
    /\ ci' = IF NeedsSatisfied(ci.buildAndTest) /\ DeployIf(ci.ref)
             THEN [ci EXCEPT !.phase = "deploy", !.step = 1, !.deploy = "running"]
             ELSE [ci EXCEPT !.phase = "finished", !.deploy = "skipped"]
    /\ UNCHANGED <<pc, exitCode, fs, pkg, hook, log, run, start, regHist>>

\* One step of deploy.
DeployStep ==
    /\ ci.phase = "deploy"
    /\ \E st \in Statuses :
         LET name == DeploySteps[ci.step]
             ran  == Append(ci.ran, [job |-> "deploy", step |-> name,
                                     command |-> st, status |-> st])
         IN  ci' = IF st # 0
                   THEN [ci EXCEPT !.ran = ran, !.deploy = "failure", !.phase = "finished"]
                   ELSE IF ci.step = Len(DeploySteps)
                        THEN [ci EXCEPT !.ran = ran, !.deploy = "success", !.phase = "finished"]
                        ELSE [ci EXCEPT !.ran = ran, !.step = ci.step + 1]
    /\ UNCHANGED <<pc, exitCode, fs, pkg, hook, log, run, start, regHist>>

NextPipe ==
    \/ Trigger
    \/ BuildAndTestStep
    \/ DeployGate
    \/ DeployStep

SpecPipe == InitPipe /\ [][NextPipe]_vars

DeployExecuted ==
    \/ ci.deploy \in {"running", "success", "failure"}
    \/ \E i \in DOMAIN ci.ran : ci.ran[i].job = "deploy"

BuildAndTestStepFailed ==
    \E i \in DOMAIN ci.ran : ci.ran[i].job = "build-and-test" /\ ci.ran[i].status # 0

\* C7: the deploy job executes only when build-and-test succeeded and the run's
\* ref is refs/heads/main; on any other ref, and after a failed build-and-test
\* step, it does not execute.
C7_DeployOnlyOnMainAfterSuccess ==
    /\ DeployExecuted => (ci.buildAndTest = "success" /\ ci.ref = "refs/heads/main")
    /\ (ci.phase = "finished" /\ (ci.ref # "refs/heads/main" \/ BuildAndTestStepFailed)) =>
          (ci.deploy = "skipped" /\ ~DeployExecuted)

C7_Witness ==
    /\ ci.phase = "finished"
    /\ ci.event = "pull_request"
    /\ ci.buildAndTest = "success"
    /\ ci.deploy = "skipped"

\* C8: when the steps before the audit succeed and `npm run lhci` returns
\* non-zero, the Lighthouse step and build-and-test report success, and on
\* main the deploy job then runs.
C8_AuditFailureTolerated ==
    \A i \in DOMAIN ci.ran :
        (ci.ran[i].job = "build-and-test" /\ ci.ran[i].step = "Lighthouse CI"
            /\ ci.ran[i].command # 0) =>
            /\ ci.ran[i].status = 0
            /\ ci.buildAndTest = "success"
            /\ (ci.phase \notin {"gate"} /\ ci.ref = "refs/heads/main") => DeployExecuted

C8_Witness ==
    /\ ci.phase = "finished"
    /\ ci.deploy = "success"
    /\ \E i \in DOMAIN ci.ran : ci.ran[i].step = "Lighthouse CI" /\ ci.ran[i].command # 0

====
